---- MODULE Spec2Model ----
(***************************************************************************)
(* dynamicgo/restclient: a REST client over go-resty.                      *)
(*                                                                         *)
(* The repository holds two near-duplicate packages: the one with checkURL *)
(* and requestToMap (src/unnamed/part_000, impl = "part_000") and the one  *)
(* without them (src/client.go, impl = "client.go").                       *)
(*                                                                         *)
(* Strings that the code takes apart (URLs, rendered numbers) are          *)
(* sequences of one-character strings; the other strings (tokens, keys,    *)
(* response bodies) are TLA+ strings.                                      *)
(***************************************************************************)
EXTENDS Integers, Sequences, FiniteSets, TLC

VARIABLES
    impl,        \* which package the caller imported
    url,         \* clientImpl.url
    pc,          \* "ready" | "returned" | "panicked"
    call,        \* the verb call made: its arguments
    sent,        \* what the transport was handed
    trace,       \* the steps of the verb call, in order
    localErr,    \* a local step of the verb call failed
    err,         \* resultImpl.err
    resp,        \* resultImpl.resp
    values,      \* resultImpl.values
    obs,         \* the last accessor call on the Result and what it returned
    target,      \* the target of the last Value call
    valueCalls,  \* Value calls made on the Result
    extractions, \* times extractValues assigned result.values
    first,       \* the first Value call on the Result and its outcome
    tpc,         \* each concurrent caller's position in Value
    tkey,        \* each concurrent caller's key
    tlocal       \* each concurrent caller's local map in extractValues

vars == <<impl, url, pc, call, sent, trace, localErr, err, resp, values,
          obs, target, valueCalls, extractions, first, tpc, tkey, tlocal>>

callVars == <<call, sent, trace, localErr>>
threadVars == <<tpc, tkey, tlocal>>

(***************************************************************************)
(* Bounds of the model.                                                    *)
(***************************************************************************)
\* longest relative path (in characters) a verb call of Spec is given
MaxPathLen == 1
\* most options a verb call is given
MaxOptions == 2
\* most Value() calls made on one Result
MaxValueCalls == 2

(***************************************************************************)
(* Character strings.                                                      *)
(***************************************************************************)
\* strings.Index(s, c) for a single character, 0 when absent (1-based)
RECURSIVE IndexFrom(_, _, _)
IndexFrom(s, c, i) ==
    IF i > Len(s) THEN 0
    ELSE IF s[i] = c THEN i ELSE IndexFrom(s, c, i + 1)

Index(s, c) == IndexFrom(s, c, 1)

\* strings.LastIndex(s, c) for a single character, 0 when absent
RECURSIVE LastIndexFrom(_, _, _)
LastIndexFrom(s, c, i) ==
    IF i = 0 THEN 0
    ELSE IF s[i] = c THEN i ELSE LastIndexFrom(s, c, i - 1)

LastIndex(s, c) == LastIndexFrom(s, c, Len(s))

HasPrefix(s, p) == Len(s) >= Len(p) /\ SubSeq(s, 1, Len(p)) = p

Drop(s, n) == SubSeq(s, n + 1, Len(s))

\* strings.Split(s, "/")
RECURSIVE Split(_)
Split(s) ==
    LET i == Index(s, "/")
    IN  IF i = 0 THEN <<s>>
        ELSE <<SubSeq(s, 1, i - 1)>> \o Split(Drop(s, i))

\* strings.Join(segs, "/")
RECURSIVE Join(_)
Join(segs) ==
    IF segs = <<>> THEN <<>>
    ELSE IF Len(segs) = 1 THEN segs[1]
    ELSE segs[1] \o <<"/">> \o Join(Tail(segs))

\* all strings over alphabet A of length at most n
RECURSIVE StringsUpTo(_, _)
StringsUpTo(A, n) ==
    IF n = 0 THEN {<<>>}
    ELSE LET shorter == StringsUpTo(A, n - 1)
         IN  shorter \cup {Append(s, c) : s \in shorter, c \in A}

Letters == {"h", "t", "p", "x"}

(***************************************************************************)
(* net/url and path/filepath as checkURL uses them.                        *)
(***************************************************************************)
\* url.getScheme: [err, scheme, rest]
RECURSIVE GetSchemeFrom(_, _)
GetSchemeFrom(s, i) ==
    IF i > Len(s) THEN [err |-> FALSE, scheme |-> <<>>, rest |-> s]
    ELSE IF s[i] \in Letters THEN GetSchemeFrom(s, i + 1)
    ELSE IF s[i] = "."
         THEN IF i = 1 THEN [err |-> FALSE, scheme |-> <<>>, rest |-> s]
              ELSE GetSchemeFrom(s, i + 1)
    ELSE IF s[i] = ":"
         THEN IF i = 1 THEN [err |-> TRUE, scheme |-> <<>>, rest |-> <<>>]
              ELSE [err |-> FALSE, scheme |-> SubSeq(s, 1, i - 1), rest |-> Drop(s, i)]
    ELSE [err |-> FALSE, scheme |-> <<>>, rest |-> s]

GetScheme(s) == GetSchemeFrom(s, 1)

\* url.unescape fails on a '%' that two hex digits do not follow; no
\* character of the model's alphabet is a hex digit
BadEscape(s) == Index(s, "%") # 0

\* url.validOptionalPort on what follows the host's last ':': an empty port
\* or digits, and the model's alphabet has no digit
BadPort(host) == LastIndex(host, ":") \notin {0, Len(host)}

\* url.Parse: [err, scheme, opaque, host, path, omitHost]
BadURL ==
    [err |-> TRUE, scheme |-> <<>>, opaque |-> <<>>, host |-> <<>>, path |-> <<>>,
     omitHost |-> FALSE]

ParseRest(scheme, rest) ==
    IF ~HasPrefix(rest, <<"/">>) /\ scheme # <<>>
    THEN \* rootless path with a scheme: opaque
         [err |-> FALSE, scheme |-> scheme, opaque |-> rest, host |-> <<>>, path |-> <<>>,
          omitHost |-> FALSE]
    ELSE IF ~HasPrefix(rest, <<"/">>) /\ Index(Split(rest)[1], ":") # 0
    THEN BadURL  \* first path segment in URL cannot contain colon
    ELSE IF HasPrefix(rest, <<"/", "/">>) /\ (scheme # <<>> \/ ~HasPrefix(rest, <<"/", "/", "/">>))
    THEN LET auth == Drop(rest, 2)
             i    == Index(auth, "/")
             host == IF i = 0 THEN auth ELSE SubSeq(auth, 1, i - 1)
             path == IF i = 0 THEN <<>> ELSE Drop(auth, i - 1)
         IN  IF BadEscape(host) \/ BadPort(host) \/ BadEscape(path)
             THEN BadURL  \* invalid URL escape, invalid port
             ELSE [err |-> FALSE, scheme |-> scheme, opaque |-> <<>>, host |-> host,
                   path |-> path, omitHost |-> FALSE]
    ELSE IF BadEscape(rest) THEN BadURL
    ELSE \* no authority; OmitHost (go 1.19 and later) when a scheme is
         \* followed by a rooted path
         [err |-> FALSE, scheme |-> scheme, opaque |-> <<>>, host |-> <<>>, path |-> rest,
          omitHost |-> scheme # <<>> /\ HasPrefix(rest, <<"/">>)]

Parse(s) ==
    LET g == GetScheme(s)
    IN  IF g.err THEN BadURL ELSE ParseRest(g.scheme, g.rest)

\* filepath.Clean on a Unix build: the elements kept, in order
RECURSIVE CleanSegs(_, _, _)
CleanSegs(segs, out, rooted) ==
    IF segs = <<>> THEN out
    ELSE LET e == Head(segs)
         IN  IF e = <<>> \/ e = <<".">> THEN CleanSegs(Tail(segs), out, rooted)
             ELSE IF e = <<".", ".">>
             THEN IF out # <<>> /\ out[Len(out)] # <<".", ".">>
                  THEN CleanSegs(Tail(segs), SubSeq(out, 1, Len(out) - 1), rooted)
                  ELSE IF rooted THEN CleanSegs(Tail(segs), out, rooted)
                  ELSE CleanSegs(Tail(segs), Append(out, e), rooted)
             ELSE CleanSegs(Tail(segs), Append(out, e), rooted)

Clean(p) ==
    IF p = <<>> THEN <<".">>
    ELSE LET rooted == p[1] = "/"
             out    == CleanSegs(Split(p), <<>>, rooted)
         IN  IF rooted THEN <<"/">> \o Join(out)
             ELSE IF out = <<>> THEN <<".">> ELSE Join(out)

\* (*url.URL).String: scheme, then the opaque part or "//" host path.  The
\* "//" is left out when OmitHost is set and there is no host; a path written
\* first whose first segment holds ':' gets "./" in front.
URLString(u) ==
    LET scheme == IF u.scheme # <<>> THEN u.scheme \o <<":">> ELSE <<>>
        auth   == IF u.scheme # <<>> \/ u.host # <<>>
                  THEN IF u.omitHost /\ u.host = <<>> THEN <<>>
                       ELSE (IF u.host # <<>> \/ u.path # <<>> THEN <<"/", "/">> ELSE <<>>)
                            \o u.host
                  ELSE <<>>
        slash  == IF u.path # <<>> /\ u.path[1] # "/" /\ u.host # <<>>
                  THEN <<"/">> ELSE <<>>
        before == scheme \o auth \o slash
        dot    == IF before = <<>> /\ Index(Split(u.path)[1], ":") # 0
                  THEN <<".", "/">> ELSE <<>>
    IN  IF u.opaque # <<>> THEN scheme \o u.opaque
        ELSE before \o dot \o u.path

\* checkURL with the parse error dropped
checkURL_unchecked(s) ==
    LET u == Parse(s)
    IN  [err |-> FALSE, url |-> URLString([u EXCEPT !.path = Clean(u.path)])]

\* clientImpl.checkURL: [err, url]
checkURL(s) ==
    LET u == Parse(s)
    IN  IF u.err THEN [err |-> TRUE, url |-> <<>>]
        ELSE [err |-> FALSE, url |-> URLString([u EXCEPT !.path = Clean(u.path)])]

(***************************************************************************)
(* encoding/json and fmt as the client uses them.  A JSON value is a       *)
(* tagged record; numbers are the integers the model draws.                *)
(***************************************************************************)
JNull == [t |-> "null"]
JStr(s) == [t |-> "str", s |-> s]
JNum(n) == [t |-> "num", n |-> n]
JBool(b) == [t |-> "bool", b |-> b]
JObj(f) == [t |-> "obj", o |-> f]
\* the array [1]
JArr == [t |-> "arr"]
\* a Go value json.Marshal rejects (a channel, a func)
GoChan == [t |-> "chan"]

EmptyMap == [k \in {} |-> JNull]

\* the response bodies the model's server sends
BodyResult == "{\"result\":{\"id\":42}}"
BodyFail == "{\"code\":1,\"msg\":\"bad\",\"data\":{\"x\":1}}"
BodyNull == "null"
BodyArray == "[1]"
BodyText == "oops"
Bodies == {BodyResult, BodyFail, BodyNull, BodyArray, BodyText}

\* the JSON decoder on a body: [ok, v]
ParseJSON(text) ==
    CASE text = BodyResult ->
           [ok |-> TRUE, v |-> JObj([result |-> JObj([id |-> JNum(42)])])]
      [] text = BodyFail ->
           [ok |-> TRUE, v |-> JObj([code |-> JNum(1), msg |-> JStr("bad"),
                                      data |-> JObj([x |-> JNum(1)])])]
      [] text = BodyNull -> [ok |-> TRUE, v |-> JNull]
      [] text = BodyArray -> [ok |-> TRUE, v |-> JArr]
      [] OTHER -> [ok |-> FALSE, v |-> JNull]

\* json.Unmarshal(data, &m) for m a non-nil map[string]interface{}:
\* [err, nil, m].  An object fills the map, null sets it to nil, anything
\* else is an error that leaves the map as it was.
UnmarshalMap(p) ==
    IF p.ok /\ p.v.t = "obj" THEN [err |-> FALSE, nil |-> FALSE, m |-> p.v.o]
    ELSE IF p.ok /\ p.v.t = "null" THEN [err |-> FALSE, nil |-> TRUE, m |-> EmptyMap]
    ELSE [err |-> TRUE, nil |-> FALSE, m |-> EmptyMap]

\* the caller's typed targets: T is struct{ID int `json:"id"`}
ZeroTarget(ty) == [ty |-> ty, id |-> 0, s |-> ""]
TargetTypes == {"T", "string"}

\* json.Unmarshal(buff, v) for buff the re-marshalled field: [err, tgt]
UnmarshalTarget(jv, tgt) ==
    IF jv.t = "null" THEN [err |-> FALSE, tgt |-> tgt]
    ELSE IF tgt.ty = "T"
    THEN IF jv.t # "obj" THEN [err |-> TRUE, tgt |-> tgt]
         ELSE IF "id" \notin DOMAIN jv.o \/ jv.o["id"].t = "null"
              THEN [err |-> FALSE, tgt |-> tgt]
         ELSE IF jv.o["id"].t = "num"
              THEN [err |-> FALSE, tgt |-> [tgt EXCEPT !.id = jv.o["id"].n]]
         ELSE [err |-> TRUE, tgt |-> tgt]
    ELSE IF jv.t = "str" THEN [err |-> FALSE, tgt |-> [tgt EXCEPT !.s = jv.s]]
    ELSE [err |-> TRUE, tgt |-> tgt]

\* decimal digits of a natural number
Digit(d) == <<"0", "1", "2", "3", "4", "5", "6", "7", "8", "9">>[d + 1]

RECURSIVE Digits(_)
Digits(n) == IF n < 10 THEN <<Digit(n)>> ELSE Digits(n \div 10) \o <<Digit(n % 10)>>

RECURSIVE StripZeros(_)
StripZeros(ds) ==
    IF Len(ds) > 1 /\ ds[Len(ds)] = "0" THEN StripZeros(SubSeq(ds, 1, Len(ds) - 1))
    ELSE ds

\* fmt.Sprintf("%v", float64(n)) for a natural n: %g with the shortest
\* digits, which turns to the exponent form from 1e+06 on
FormatFloat(n) ==
    LET ds  == Digits(n)
        exp == Len(ds) - 1
        m   == StripZeros(ds)
    IN  IF exp < 6 THEN ds
        ELSE <<m[1]>> \o (IF Len(m) > 1 THEN <<".">> \o Tail(m) ELSE <<>>)
             \o <<"e", "+">> \o (IF exp < 10 THEN <<"0">> ELSE <<>>) \o Digits(exp)

\* the map keys of the model in the order fmt prints them (sorted), and
\* their characters
KeyOrder == <<"a", "b", "code", "data", "id", "msg", "n", "name", "result", "x">>
KeyChars ==
    [a |-> <<"a">>, b |-> <<"b">>, code |-> <<"c", "o", "d", "e">>,
     data |-> <<"d", "a", "t", "a">>, id |-> <<"i", "d">>, msg |-> <<"m", "s", "g">>,
     n |-> <<"n">>, name |-> <<"n", "a", "m", "e">>,
     result |-> <<"r", "e", "s", "u", "l", "t">>, x |-> <<"x">>]

\* fmt.Sprintf("%v", v) for a value the JSON decoder produced: a string as
\* it is, a float64 by %g, a map as map[k:v k:v] with sorted keys, a slice
\* as [v v], a nil interface as <nil>
RECURSIVE Sprintv(_), SprintEntries(_, _, _)
Sprintv(jv) ==
    CASE jv.t = "str" -> jv.s
      [] jv.t = "num" -> FormatFloat(jv.n)
      [] jv.t = "bool" -> IF jv.b THEN <<"t", "r", "u", "e">> ELSE <<"f", "a", "l", "s", "e">>
      [] jv.t = "obj" -> <<"m", "a", "p", "[">> \o SprintEntries(jv.o, 1, TRUE) \o <<"]">>
      [] jv.t = "arr" -> <<"[", "1", "]">>
      [] OTHER -> <<"<", "n", "i", "l", ">">>

\* the entries of a map from the i-th key of KeyOrder on, space separated
SprintEntries(o, i, head) ==
    IF i > Len(KeyOrder) THEN <<>>
    ELSE IF KeyOrder[i] \notin DOMAIN o THEN SprintEntries(o, i + 1, head)
    ELSE (IF head THEN <<>> ELSE <<" ">>)
         \o KeyChars[KeyOrder[i]] \o <<":">> \o Sprintv(o[KeyOrder[i]])
         \o SprintEntries(o, i + 1, FALSE)

NoParams == [k \in {} |-> <<>>]

\* clientImpl.requestToMap: [err, params]
requestToMap(request) ==
    IF request.t = "chan" THEN [err |-> "marshal", params |-> NoParams]
    ELSE LET u == UnmarshalMap([ok |-> TRUE, v |-> request])
         IN  IF u.err THEN [err |-> "unmarshal", params |-> NoParams]
             ELSE [err |-> "none",
                   params |-> [k \in DOMAIN u.m |-> Sprintv(u.m[k])]]

\* the conversion inlined in GET and DELETE of client.go: json.Unmarshal
\* into a map[string]string, which takes only strings (and null, as "")
requestToMap_client_go(request) ==
    IF request.t = "chan" THEN [err |-> "marshal", params |-> NoParams]
    ELSE IF request.t = "null" THEN [err |-> "none", params |-> NoParams]
    ELSE IF request.t # "obj" THEN [err |-> "unmarshal", params |-> NoParams]
    ELSE IF \E k \in DOMAIN request.o : request.o[k].t \notin {"str", "null"}
         THEN [err |-> "unmarshal", params |-> NoParams]
    ELSE [err |-> "none",
          params |-> [k \in DOMAIN request.o |->
                        IF request.o[k].t = "str" THEN request.o[k].s ELSE <<>>]]

(***************************************************************************)
(* go-resty as the client uses it: the request resty.R() returns, the      *)
(* responses and errors r.Post / r.Get / r.Delete return, and the          *)
(* accessors of *resty.Response.                                           *)
(***************************************************************************)
\* http.StatusOK
StatusOK == 200
Statuses == {200, 201, 400}

NoErr == [kind |-> "none", status |-> 0, body |-> "", key |-> ""]
LocalErr(kind) == [kind |-> kind, status |-> 0, body |-> "", key |-> ""]
TransportErr == [kind |-> "transport", status |-> 0, body |-> "", key |-> ""]

\* a nil *resty.Response, a Response without RawResponse, a full Response
NilResp == [nil |-> TRUE, raw |-> FALSE, status |-> 0, body |-> ""]
NoRawResp == [nil |-> FALSE, raw |-> FALSE, status |-> 0, body |-> ""]
RawResp(st, b) == [nil |-> FALSE, raw |-> TRUE, status |-> st, body |-> b]

\* (*resty.Response).StatusCode and Body read r.RawResponse first: on a nil
\* receiver they dereference nil
Derefs(r) == r.nil
StatusCode(r) == IF r.raw THEN r.status ELSE 0
Body(r) == IF r.raw THEN r.body ELSE ""

\* resty.R(): RawRequest is nil until the request is executed
RestyR == [RawRequest |-> [nil |-> TRUE, header |-> <<>>], Header |-> <<>>,
           Body |-> JNull, hasBody |-> FALSE, QueryParam |-> NoParams]
SetBody(r, request) == [r EXCEPT !.Body = request, !.hasBody = TRUE]
SetQueryParams(r, params) == [r EXCEPT !.QueryParam = params]

\* what the transport answers: a response, or an error with no response,
\* with a Response that has no RawResponse, or with the redirect refused
Outcomes ==
    {[err |-> NoErr, resp |-> RawResp(st, b)] : st \in Statuses, b \in Bodies}
    \cup {[err |-> TransportErr, resp |-> r] :
            r \in {NilResp, NoRawResp, RawResp(302, BodyText)}}

\* r.Post(url), r.Get(url), r.Delete(url): resty parses the URL and
\* marshals the body before any I/O and returns (nil, err) when either fails
Execute(r, rawurl) ==
    IF Parse(rawurl).err \/ (r.hasBody /\ r.Body.t = "chan")
    THEN {[err |-> TransportErr, resp |-> NilResp]}
    ELSE Outcomes

(***************************************************************************)
(* Options.                                                                *)
(***************************************************************************)
JWT(token) == [kind |-> "jwt", token |-> token]
AuthOption == [kind |-> "auth", token |-> ""]
Options == {JWT("t1"), JWT("t2"), AuthOption}

RECURSIVE SeqsUpTo(_, _)
SeqsUpTo(S, n) ==
    IF n = 0 THEN {<<>>}
    ELSE LET shorter == SeqsUpTo(S, n - 1)
         IN  shorter \cup {Append(q, x) : q \in shorter, x \in S}

\* WithJWToken(token)(request): [panic, req]
WithJWToken(token, request) ==
    IF request.nil THEN [panic |-> TRUE, req |-> request]
    ELSE [panic |-> FALSE,
          req |-> [request EXCEPT !.header =
                     Append(@, <<"Authorization", "Bearer " \o token>>)]]

\* WithAuth(auth)(request): auth.Handle is the caller's; handed a nil
\* request it either dereferences it or leaves it alone
WithAuth(authPanics, request) ==
    IF request.nil THEN [panic |-> authPanics, req |-> request]
    ELSE [panic |-> FALSE,
          req |-> [request EXCEPT !.header = Append(@, <<"Authorization", "auth">>)]]

Option(o, authPanics, request) ==
    IF o.kind = "jwt" THEN WithJWToken(o.token, request)
    ELSE WithAuth(authPanics, request)

\* for _, option := range options { option(r.RawRequest) }:
\* [panic, req, applied]
RECURSIVE ApplyOptions(_, _, _, _)
ApplyOptions(options, authPanics, request, applied) ==
    IF options = <<>> THEN [panic |-> FALSE, req |-> request, applied |-> applied]
    ELSE LET a == Option(Head(options), authPanics, request)
         IN  IF a.panic THEN [panic |-> TRUE, req |-> request, applied |-> applied]
             ELSE ApplyOptions(Tail(options), authPanics, a.req, applied + 1)

\* http.Header.Get: the first value stored under the name, "" when none
RECURSIVE HeaderGet(_, _)
HeaderGet(header, name) ==
    IF header = <<>> THEN ""
    ELSE IF Head(header)[1] = name THEN Head(header)[2]
    ELSE HeaderGet(Tail(header), name)

(***************************************************************************)
(* Result.                                                                 *)
(***************************************************************************)
NilValues == [nil |-> TRUE, m |-> EmptyMap]

\* OK taking every 2xx status for success
OK_any2xx(e, r) == e.kind = "none" /\ StatusCode(r) \in 200..299

\* resultImpl.OK; OKPanics is the nil dereference in resp.StatusCode()
OKPanics(e, r) == e.kind = "none" /\ Derefs(r)
OK(e, r) == e.kind = "none" /\ StatusCode(r) = StatusOK

\* resultImpl.Fail
Fail(e, r) == ~OK(e, r)

\* the error resultImpl.Error makes of the response's status line and body
StatusError(r) == [kind |-> "status", status |-> StatusCode(r), body |-> Body(r), key |-> ""]

\* Error preferring the response's status over the stored error
Error_statusFirst(e, r) ==
    IF e.kind = "none" /\ StatusCode(r) = StatusOK THEN NoErr
    ELSE IF ~r.nil THEN StatusError(r)
    ELSE e

\* resultImpl.Error
Error(e, r) ==
    IF OK(e, r) THEN NoErr
    ELSE IF e.kind # "none" THEN e
    ELSE IF ~r.nil THEN StatusError(r)
    ELSE NoErr

\* resultImpl.extractValues of part_000: the values after the call
extractValues(v, r) ==
    IF ~v.nil THEN v
    ELSE IF r.nil THEN v
    ELSE LET u == UnmarshalMap(ParseJSON(Body(r)))
         IN  [nil |-> u.nil, m |-> u.m]

\* whether extractValues reaches its assignment result.values = values
extractWrites(v, r) == v.nil /\ ~r.nil

\* the lookup, re-marshal and unmarshal of resultImpl.Value:
\* [panic, ret, tgt]
UnknownErr(key, r) == [kind |-> "unknown", status |-> 0, body |-> Body(r), key |-> key]
ShapeErr(key) == [kind |-> "shape", status |-> 0, body |-> "", key |-> key]

Lookup(v, r, key, tgt) ==
    IF key \notin DOMAIN v.m
    THEN IF Derefs(r) THEN [panic |-> TRUE, ret |-> NoErr, tgt |-> tgt]
         ELSE [panic |-> FALSE, ret |-> UnknownErr(key, r), tgt |-> tgt]
    ELSE LET d == UnmarshalTarget(v.m[key], tgt)
         IN  IF d.err THEN [panic |-> FALSE, ret |-> ShapeErr(key), tgt |-> d.tgt]
             ELSE [panic |-> FALSE, ret |-> NoErr, tgt |-> d.tgt]

(***************************************************************************)
(* The inputs.                                                             *)
(***************************************************************************)
Impls == {"part_000", "client.go"}

BaseHost == <<"h", "t", "t", "p", ":", "/", "/", "h">>
BaseAPI == <<"h", "t", "t", "p", ":", "/", "/", "h", "/", "x", "/">>
BaseBad == <<":">>
Bases == {BaseHost, BaseAPI, BaseBad}

PathChars == {"/", ".", "x", "%"}
Paths == StringsUpTo(PathChars, MaxPathLen)

\* request payloads: nil, struct{Name string}, struct{Name string; N int;
\* B bool}, a bare string, a channel
PayloadName == JObj([name |-> JStr(<<"v">>)])
PayloadMixed == JObj([name |-> JStr(<<"v">>), n |-> JNum(7), b |-> JBool(TRUE)])
Payloads == {JNull, PayloadName, PayloadMixed, JStr(<<"v">>), GoChan}

OptionSeqs == SeqsUpTo(Options, MaxOptions)

Keys == {"result", "msg", "missing"}
Threads == {1, 2}

NoCall == [verb |-> "", path |-> <<>>, request |-> JNull, options |-> <<>>,
           authPanics |-> FALSE]
NotSent == [invoked |-> FALSE, method |-> "", url |-> <<>>, header |-> <<>>,
            body |-> JNull, query |-> NoParams]
NoObs == [op |-> "none", b |-> FALSE, e |-> NoErr, r |-> NilResp, v |-> NilValues,
          key |-> ""]
NoFirst == [set |-> FALSE, key |-> "", ret |-> NoErr, tgt |-> ZeroTarget("T")]

\* newResult(err, resp)
newResult(e, r) ==
    /\ err' = e
    /\ resp' = r
    /\ values' = NilValues

\* the request resty builds and sends on r.Post / r.Get / r.Delete: its
\* headers and body are the resty.Request's own
Sent(method, rawurl, r) ==
    [invoked |-> TRUE, method |-> method, url |-> rawurl, header |-> r.Header,
     body |-> r.Body, query |-> r.QueryParam]

Repeat(x, n) == [i \in 1..n |-> x]

\* the verb call dies in its option loop
Panic(tr) ==
    /\ pc' = "panicked"
    /\ trace' = tr
    /\ sent' = NotSent
    /\ localErr' = FALSE
    /\ UNCHANGED <<err, resp, values>>

\* return newResult(err, nil) after a local failure
ReturnLocal(kind, tr) ==
    /\ pc' = "returned"
    /\ trace' = tr
    /\ sent' = NotSent
    /\ localErr' = TRUE
    /\ newResult(LocalErr(kind), NilResp)

\* resp, err := r.Post(url); return newResult(err, resp)
ReturnSent(method, rawurl, r, tr) ==
    \E out \in Execute(r, rawurl) :
        /\ pc' = "returned"
        /\ trace' = Append(tr, method)
        /\ sent' = Sent(method, rawurl, r)
        /\ localErr' = FALSE
        /\ newResult(out.err, out.resp)

AuthChoices(options) ==
    IF \E i \in 1..Len(options) : options[i].kind = "auth" THEN BOOLEAN ELSE {FALSE}

resultVars == <<obs, target, valueCalls, extractions, first>>

(***************************************************************************)
(* The verbs of part_000.                                                  *)
(***************************************************************************)
\* clientImpl.POST
POST ==
    /\ pc = "ready" /\ impl = "part_000"
    /\ \E path \in Paths, request \in Payloads, options \in OptionSeqs :
       \E authPanics \in AuthChoices(options) :
          LET r  == SetBody(RestyR, request)
              a  == ApplyOptions(options, authPanics, r.RawRequest, 0)
              tr == <<"SetBody">> \o Repeat("option", a.applied)
              u  == checkURL(url \o path)
          IN  /\ call' = [verb |-> "POST", path |-> path, request |-> request,
                          options |-> options, authPanics |-> authPanics]
              /\ IF a.panic THEN Panic(tr)
                 ELSE IF u.err THEN ReturnLocal("parse", Append(tr, "checkURL"))
                 ELSE ReturnSent("POST", u.url, r, Append(tr, "checkURL"))
    /\ UNCHANGED <<impl, url, resultVars, threadVars>>

\* GET and DELETE differ in the method only
QueryVerb(method) ==
    /\ pc = "ready" /\ impl = "part_000"
    /\ \E path \in Paths, request \in Payloads, options \in OptionSeqs :
       \E authPanics \in AuthChoices(options) :
          LET p  == requestToMap(request)
              r  == SetQueryParams(RestyR, p.params)
              a  == ApplyOptions(options, authPanics, r.RawRequest, 0)
              tr == <<"requestToMap", "SetQueryParams">> \o Repeat("option", a.applied)
              u  == checkURL(url \o path)
          IN  /\ call' = [verb |-> method, path |-> path, request |-> request,
                          options |-> options, authPanics |-> authPanics]
              /\ IF p.err # "none" THEN ReturnLocal(p.err, <<"requestToMap">>)
                 ELSE IF a.panic THEN Panic(tr)
                 ELSE IF u.err THEN ReturnLocal("parse", Append(tr, "checkURL"))
                 ELSE ReturnSent(method, u.url, r, Append(tr, "checkURL"))
    /\ UNCHANGED <<impl, url, resultVars, threadVars>>

\* clientImpl.GET
GET == QueryVerb("GET")

\* clientImpl.DELETE
DELETE == QueryVerb("DELETE")

(***************************************************************************)
(* The verbs of client.go: the URL is client.url + "/" + path, unchecked.  *)
(***************************************************************************)
\* clientImpl.POST of client.go
POST_client_go ==
    /\ pc = "ready" /\ impl = "client.go"
    /\ \E path \in Paths, request \in Payloads, options \in OptionSeqs :
       \E authPanics \in AuthChoices(options) :
          LET r  == SetBody(RestyR, request)
              a  == ApplyOptions(options, authPanics, r.RawRequest, 0)
              tr == <<"SetBody">> \o Repeat("option", a.applied)
          IN  /\ call' = [verb |-> "POST", path |-> path, request |-> request,
                          options |-> options, authPanics |-> authPanics]
              /\ IF a.panic THEN Panic(tr)
                 ELSE ReturnSent("POST", url \o <<"/">> \o path, r, tr)
    /\ UNCHANGED <<impl, url, resultVars, threadVars>>

QueryVerb_client_go(method) ==
    /\ pc = "ready" /\ impl = "client.go"
    /\ \E path \in Paths, request \in Payloads, options \in OptionSeqs :
       \E authPanics \in AuthChoices(options) :
          LET p  == requestToMap_client_go(request)
              r  == SetQueryParams(RestyR, p.params)
              a  == ApplyOptions(options, authPanics, r.RawRequest, 0)
              tr == <<"Marshal", "Unmarshal", "SetQueryParams">>
                    \o Repeat("option", a.applied)
          IN  /\ call' = [verb |-> method, path |-> path, request |-> request,
                          options |-> options, authPanics |-> authPanics]
              /\ IF p.err = "marshal" THEN ReturnLocal(p.err, <<"Marshal">>)
                 ELSE IF p.err # "none" THEN ReturnLocal(p.err, <<"Marshal", "Unmarshal">>)
                 ELSE IF a.panic THEN Panic(tr)
                 ELSE ReturnSent(method, url \o <<"/">> \o path, r, tr)
    /\ UNCHANGED <<impl, url, resultVars, threadVars>>

\* clientImpl.GET of client.go
GET_client_go == QueryVerb_client_go("GET")

\* clientImpl.DELETE of client.go
DELETE_client_go == QueryVerb_client_go("DELETE")

(***************************************************************************)
(* The accessors of a returned Result.                                     *)
(***************************************************************************)
Observe(o) ==
    /\ obs' = o
    /\ UNCHANGED <<impl, url, callVars, err, resp, values, target, valueCalls,
                   extractions, first, threadVars>>

\* a call of resultImpl.OK
CallOK ==
    /\ pc = "returned"
    /\ pc' = IF OKPanics(err, resp) THEN "panicked" ELSE pc
    /\ Observe([NoObs EXCEPT !.op = "OK", !.b = OK(err, resp)])

\* a call of resultImpl.Fail
CallFail ==
    /\ pc = "returned"
    /\ pc' = IF OKPanics(err, resp) THEN "panicked" ELSE pc
    /\ Observe([NoObs EXCEPT !.op = "Fail", !.b = Fail(err, resp)])

\* a call of resultImpl.Error
CallError ==
    /\ pc = "returned"
    /\ pc' = IF OKPanics(err, resp) THEN "panicked" ELSE pc
    /\ Observe([NoObs EXCEPT !.op = "Error", !.e = Error(err, resp)])

\* resultImpl.Response
Response ==
    /\ pc = "returned"
    /\ UNCHANGED pc
    /\ Observe([NoObs EXCEPT !.op = "Response", !.r = resp])

\* Values extracting, as Value does
Values_extracting ==
    /\ pc = "returned"
    /\ UNCHANGED pc
    /\ values' = extractValues(values, resp)
    /\ obs' = [NoObs EXCEPT !.op = "Values", !.v = values']
    /\ UNCHANGED <<impl, url, callVars, err, resp, target, valueCalls,
                   extractions, first, threadVars>>

\* resultImpl.Values
Values ==
    /\ pc = "returned"
    /\ UNCHANGED pc
    /\ Observe([NoObs EXCEPT !.op = "Values", !.v = values])

\* what a Value call leaves behind, v being the values it looked the key up in
ValueDone(v, key, ty) ==
    LET l == Lookup(v, resp, key, ZeroTarget(ty))
    IN  /\ values' = v
        /\ pc' = IF l.panic THEN "panicked" ELSE pc
        /\ obs' = [NoObs EXCEPT !.op = "Value", !.e = l.ret, !.key = key]
        /\ target' = l.tgt
        /\ valueCalls' = valueCalls + 1
        /\ first' = IF first.set \/ l.panic THEN first
                    ELSE [set |-> TRUE, key |-> key, ret |-> l.ret, tgt |-> l.tgt]

\* resultImpl.Value of part_000
Value ==
    /\ pc = "returned" /\ impl = "part_000"
    /\ valueCalls < MaxValueCalls
    /\ \E key \in Keys, ty \in TargetTypes :
          ValueDone(extractValues(values, resp), key, ty)
    /\ extractions' = extractions + (IF extractWrites(values, resp) THEN 1 ELSE 0)
    /\ UNCHANGED <<impl, url, callVars, err, resp, threadVars>>

\* resultImpl.Value of client.go, where nothing calls extractValues
Value_client_go ==
    /\ pc = "returned" /\ impl = "client.go"
    /\ valueCalls < MaxValueCalls
    /\ \E key \in Keys, ty \in TargetTypes : ValueDone(values, key, ty)
    /\ UNCHANGED <<impl, url, callVars, err, resp, extractions, threadVars>>

(***************************************************************************)
(* Two goroutines in Value on one Result of part_000, statement by         *)
(* statement.                                                              *)
(***************************************************************************)
RaceUnchanged == <<impl, url, callVars, err, resp, valueCalls, first>>

\* Value is entered
TCall(t) ==
    /\ pc = "returned" /\ tpc[t] = "idle"
    /\ \E key \in Keys : tkey' = [tkey EXCEPT ![t] = key]
    /\ tpc' = [tpc EXCEPT ![t] = "check"]
    /\ UNCHANGED <<RaceUnchanged, pc, values, obs, target, extractions, tlocal>>

\* extractValues under a mutex held from the nil check to the assignment:
\* the check waits while another caller is extracting
TCheck_mutex(t) ==
    /\ pc = "returned" /\ tpc[t] = "check"
    /\ \A u \in Threads \ {t} : tpc[u] \notin {"parse", "store"}
    /\ tpc' = [tpc EXCEPT ![t] = IF extractWrites(values, resp) THEN "parse" ELSE "lookup"]
    /\ UNCHANGED <<RaceUnchanged, pc, values, obs, target, extractions, tkey, tlocal>>

\* extractValues: if result.values != nil / if result.resp == nil
TCheck(t) ==
    /\ pc = "returned" /\ tpc[t] = "check"
    /\ tpc' = [tpc EXCEPT ![t] = IF extractWrites(values, resp) THEN "parse" ELSE "lookup"]
    /\ UNCHANGED <<RaceUnchanged, pc, values, obs, target, extractions, tkey, tlocal>>

\* extractValues: values := make(...); json.Unmarshal(body, &values)
TParse(t) ==
    /\ pc = "returned" /\ tpc[t] = "parse"
    /\ tlocal' = [tlocal EXCEPT ![t] = extractValues(NilValues, resp)]
    /\ tpc' = [tpc EXCEPT ![t] = "store"]
    /\ UNCHANGED <<RaceUnchanged, pc, values, obs, target, extractions, tkey>>

\* extractValues: result.values = values
TStore(t) ==
    /\ pc = "returned" /\ tpc[t] = "store"
    /\ values' = tlocal[t]
    /\ extractions' = extractions + 1
    /\ tpc' = [tpc EXCEPT ![t] = "lookup"]
    /\ UNCHANGED <<RaceUnchanged, pc, obs, target, tkey, tlocal>>

\* Value: data, ok := result.values[key] and the rest
TLookup(t) ==
    /\ pc = "returned" /\ tpc[t] = "lookup"
    /\ LET l == Lookup(values, resp, tkey[t], ZeroTarget("T"))
       IN  /\ pc' = IF l.panic THEN "panicked" ELSE pc
           /\ obs' = [NoObs EXCEPT !.op = "Value", !.e = l.ret, !.key = tkey[t]]
           /\ target' = l.tgt
    /\ tpc' = [tpc EXCEPT ![t] = "done"]
    /\ UNCHANGED <<RaceUnchanged, values, extractions, tkey, tlocal>>

(***************************************************************************)
(* Specifications.                                                         *)
(***************************************************************************)
\* the (err, resp) pairs a verb call of package i hands to newResult
LocalKinds(i) ==
    IF i = "part_000" THEN {"parse", "marshal", "unmarshal"} ELSE {"marshal", "unmarshal"}

Returned(i) ==
    {[err |-> LocalErr(k), resp |-> NilResp] : k \in LocalKinds(i)}
    \cup {[err |-> TransportErr, resp |-> NilResp]}
    \cup Outcomes

InitCommon ==
    /\ impl \in Impls
    /\ url \in Bases
    /\ call = NoCall
    /\ sent = NotSent
    /\ trace = <<>>
    /\ localErr = FALSE
    /\ values = NilValues
    /\ obs = NoObs
    /\ target = ZeroTarget("T")
    /\ valueCalls = 0
    /\ extractions = 0
    /\ first = NoFirst
    /\ tpc = [t \in Threads |-> "idle"]
    /\ tkey = [t \in Threads |-> "result"]
    /\ tlocal = [t \in Threads |-> NilValues]

\* New(url): a client, no call made yet
Init ==
    /\ InitCommon
    /\ pc = "ready"
    /\ err = NoErr
    /\ resp = NilResp

\* a verb call and the accessors without side effect on its Result
Next ==
    \/ POST \/ GET \/ DELETE
    \/ POST_client_go \/ GET_client_go \/ DELETE_client_go
    \/ CallOK \/ CallFail \/ CallError \/ Response \/ Values

Spec == Init /\ [][Next]_vars

\* a Result as a verb call returned it
InitResult ==
    /\ InitCommon
    /\ url = BaseHost
    /\ pc = "returned"
    /\ \E res \in Returned(impl) : err = res.err /\ resp = res.resp

\* sequential Value and Values calls on one Result
NextResult == Value \/ Value_client_go \/ Values

SpecResult == InitResult /\ [][NextResult]_vars

\* two goroutines calling Value on one Result of part_000
InitRace == InitResult /\ impl = "part_000"

NextRace == \E t \in Threads : TCall(t) \/ TCheck(t) \/ TParse(t) \/ TStore(t) \/ TLookup(t)

SpecRace == InitRace /\ [][NextRace]_vars

(***************************************************************************)
(* Properties.                                                             *)
(***************************************************************************)
Returning == pc = "returned"
Result == [err |-> err, resp |-> resp]

\* a response was received and its status code is exactly 200
Received200 == ~resp.nil /\ resp.raw /\ resp.status = 200

\* C1: for every Result a verb call returns, OK() is true exactly when no
\* error is stored, a response was received and its status is exactly 200;
\* Fail() is the negation; neither call aborts the caller.
C1_OKExactly200 ==
    /\ Returning => Result \in Returned(impl)
    /\ Returning => (OK(err, resp) <=> (err = NoErr /\ Received200))
    /\ obs.op \in {"OK", "Fail"} => pc = "returned"
    /\ obs.op = "OK" => (obs.b <=> (err = NoErr /\ Received200))
    /\ obs.op = "Fail" => (obs.b <=> ~(err = NoErr /\ Received200))

\* C1 witness: OK() was called on a Result with no error and status 201 and
\* returned false.
C1_Witness ==
    /\ obs.op = "OK" /\ ~obs.b
    /\ err = NoErr /\ resp.raw /\ resp.status = 201

\* C2: Error() returns nil on an OK Result, otherwise the stored error
\* unchanged (also when a response is present), otherwise an error made of
\* the response's status and raw body.
C2_ErrorCases ==
    obs.op = "Error" =>
        /\ pc = "returned"
        /\ (err = NoErr /\ Received200) => obs.e = NoErr
        /\ err # NoErr => obs.e = err
        /\ (err = NoErr /\ ~resp.nil /\ ~Received200) =>
              /\ obs.e.kind = "status"
              /\ obs.e.status = resp.status
              /\ obs.e.body = resp.body

\* C2 witness: Error() on a status 400 response with the failure envelope
\* returned the synthesized error carrying 400 and the raw body.
C2_Witness ==
    /\ obs.op = "Error" /\ err = NoErr
    /\ obs.e.kind = "status" /\ obs.e.status = 400 /\ obs.e.body = BodyFail

\* a local step of the call made fails: the URL check of part_000, or the
\* payload conversion of GET and DELETE
URLFails == impl = "part_000" /\ Parse(url \o call.path).err
PayloadFails ==
    /\ call.verb \in {"GET", "DELETE"}
    /\ \/ call.request.t = "chan"
       \/ call.request.t \notin {"obj", "null"}
       \/ /\ impl = "client.go" /\ call.request.t = "obj"
          /\ \E k \in DOMAIN call.request.o : call.request.o[k].t \notin {"str", "null"}
PreflightFails == pc # "ready" /\ (URLFails \/ PayloadFails)

\* C3: when a local pre-flight step of POST, GET or DELETE fails, the
\* transport is not invoked, and the Result returned has Fail() true, the
\* local error as its Error() and a nil Response().
C3_LocalFailureShortCircuits ==
    PreflightFails =>
        /\ ~sent.invoked
        /\ Returning =>
              /\ localErr
              /\ Fail(err, resp)
              /\ err.kind \in {"parse", "marshal", "unmarshal"}
              /\ Error(err, resp) = err
              /\ resp = NilResp
              /\ obs.op = "Response" => obs.r.nil

\* C3 witness: a GET of part_000 whose URL does not parse returned, and
\* Response() was called on its Result.
C3_Witness ==
    /\ Returning /\ impl = "part_000" /\ call.verb = "GET"
    /\ URLFails /\ ~PayloadFails
    /\ obs.op = "Response"

\* C4: Value(key, target) on a Result that carries a local error and a nil
\* response returns a "field not found" error and never aborts the caller.
C4_ValueOnNilResponseReturns ==
    (obs.op = "Value" /\ err # NoErr /\ resp.nil) =>
        /\ pc = "returned"
        /\ obs.e.kind = "unknown"

\* the top-level fields of the response body parsed as a JSON object
TopLevel ==
    LET p == ParseJSON(Body(resp))
    IN  IF p.ok /\ p.v.t = "obj" THEN p.v.o ELSE EmptyMap

\* the field's shape fits the target's type
Fits(jv, ty) ==
    \/ jv.t = "null"
    \/ ty = "string" /\ jv.t = "str"
    \/ ty = "T" /\ jv.t = "obj"
       /\ ("id" \in DOMAIN jv.o => jv.o["id"].t \in {"num", "null"})

\* the statement of C5 about the last Value call
ValueMatchesBody ==
    (obs.op = "Value" /\ ~resp.nil) =>
        /\ pc = "returned"
        /\ obs.e = NoErr <=>
              (obs.key \in DOMAIN TopLevel /\ Fits(TopLevel[obs.key], target.ty))
        /\ obs.e = NoErr =>
              target = UnmarshalTarget(TopLevel[obs.key], ZeroTarget(target.ty)).tgt
        /\ obs.key \notin DOMAIN TopLevel =>
              (obs.e.kind = "unknown" /\ target = ZeroTarget(target.ty))

\* C5: on a Result holding a response, Value(key, target) returns nil and
\* fills target exactly when key is a top-level field of the body parsed as
\* a JSON object whose shape fits; any other key gives the "unknown field"
\* error and leaves target untouched.
C5_ValueReflectsBody == ValueMatchesBody

\* C5 restricted to part_000, where Value calls extractValues.
C5_ValueReflectsBody_part_000 == impl = "part_000" => ValueMatchesBody

\* the call made was given only WithJWToken options, at least one, and no
\* local step of it fails
JWTCall ==
    /\ pc # "ready" /\ ~URLFails /\ ~PayloadFails
    /\ call.options # <<>>
    /\ \A i \in 1..Len(call.options) : call.options[i].kind = "jwt"

\* C6: all options are applied, in order, before the transport is invoked,
\* and the request sent carries the Authorization value of the last
\* WithJWToken option.
C6_LastTokenOnSentRequest ==
    JWTCall =>
        /\ pc = "returned"
        /\ sent.invoked
        /\ HeaderGet(sent.header, "Authorization")
             = "Bearer " \o call.options[Len(call.options)].token

\* C6, the part the code keeps: a call that reaches the transport ran its
\* option loop over every option, after attaching the payload and before
\* the send.
C6_OptionsCalledBeforeSend ==
    (Returning /\ sent.invoked) =>
        LET n == Len(trace)
            k == Len(call.options)
            c == IF impl = "part_000" THEN 1 ELSE 0
        IN  /\ trace[n] = call.verb
            /\ \A i \in (n - c - k)..(n - c - 1) : trace[i] = "option"
            /\ trace[n - c - k - 1] \in {"SetBody", "SetQueryParams"}
            /\ Cardinality({i \in 1..n : trace[i] = "option"}) = k

\* a path with no empty, "." or ".." segment
NormalPath(p) ==
    \/ p = <<>>
    \/ p = <<"/">>
    \/ /\ p[1] = "/"
       /\ LET segs == Split(p)
          IN  \A i \in 2..Len(segs) : segs[i] \notin {<<>>, <<".">>, <<".", ".">>}

\* C7: when baseURL+path parses, the URL handed to the transport has the
\* scheme and host of the concatenation and a path with no empty, "." or
\* ".." segment.
C7_SentURLNormalized ==
    (Returning /\ impl = "part_000" /\ sent.invoked) =>
        LET in  == Parse(url \o call.path)
            out == Parse(sent.url)
        IN  /\ ~out.err
            /\ out.scheme = in.scheme /\ out.host = in.host
            /\ NormalPath(out.path)

\* a payload object whose top-level fields are strings, numbers or booleans
ScalarObject(request) ==
    /\ request.t = "obj"
    /\ \A k \in DOMAIN request.o : request.o[k].t \in {"str", "num", "bool"}

\* the statement of C8 about the call made
QueryMatchesPayload ==
    (Returning /\ call.verb \in {"GET", "DELETE"} /\ ScalarObject(call.request)) =>
        /\ err.kind \notin {"marshal", "unmarshal"}
        /\ sent.invoked =>
              /\ DOMAIN sent.query = DOMAIN call.request.o
              /\ \A k \in DOMAIN sent.query :
                    sent.query[k] = Sprintv(call.request.o[k])

\* C8: GET and DELETE convert a payload of string, number and boolean
\* fields without local error into a query map with the payload's field
\* names as keys and each value rendered as a string.
C8_QueryMapFromScalars == QueryMatchesPayload

\* C8 restricted to part_000, where requestToMap does the conversion.
C8_QueryMapFromScalars_part_000 == impl = "part_000" => QueryMatchesPayload

\* C9: on a Result holding a response, the cache goes from nil to a map at
\* most once, in the first Value call; Values never extracts and returns
\* nil before any Value call; an extracted map never changes; a repeated
\* Value call with the first call's key and target type has its outcome.
C9_ExtractOnceAtFirstValue ==
    [][/\ (values.nil /\ ~values'.nil) =>
             (valueCalls = 0 /\ valueCalls' = 1 /\ obs'.op = "Value")
       /\ ~values.nil => values' = values
       /\ (obs'.op = "Values" /\ valueCalls' = 0) => obs'.v.nil
       /\ (obs'.op = "Value" /\ ~resp.nil /\ first.set
             /\ obs'.key = first.key /\ target'.ty = first.tgt.ty) =>
             (pc' = "returned" /\ obs'.e = first.ret /\ target' = first.tgt)
      ]_vars

\* C9 witness: the second Value call on a part_000 Result repeated the
\* first call's key and target and succeeded on the extracted map.
C9_Witness ==
    /\ impl = "part_000" /\ valueCalls = 2 /\ ~values.nil
    /\ obs.op = "Value" /\ obs.key = first.key /\ target.ty = first.tgt.ty
    /\ obs.e = NoErr /\ target.id = 42

\* C10: the nil check of extractValues is not synchronized with another
\* caller's extraction: a caller at the check that finds a response and a
\* nil cache can always go on to parse and assign, never waiting, also
\* while another caller is between its own check and its assignment.
C10_CheckUnsynchronized ==
    \A t \in Threads :
        (pc = "returned" /\ tpc[t] = "check" /\ values.nil /\ ~resp.nil) =>
            ENABLED (TCheck(t) /\ tpc'[t] = "parse")

\* C10 witness: both callers found the cache nil, both were extracting at
\* once, and both assigned result.values a map: the second assignment
\* replaced a cache that was already extracted.
C10_Witness ==
    /\ extractions = 2 /\ ~values.nil
    /\ \A t \in Threads : tpc[t] \in {"lookup", "done"}

====
